---- MODULE Spec2Model ----
(***************************************************************************)
(* Remote-server authorization and request-forwarding proxy of the desktop *)
(* shell: RemoteServerConfigCtr (credential store), AuthCtr (OAuth2 PKCE   *)
(* flow and token refresh) and RemoteServerSyncCtr (request handler).      *)
(*                                                                         *)
(* Scheduling: one event loop.  A handler runs without interruption from   *)
(* one real suspension point (fetch, timer, digest, browser launch) to the *)
(* next, so each action below is one such run-to-suspension segment.       *)
(***************************************************************************)
EXTENDS Naturals, Sequences, FiniteSets, TLC

VARIABLES
  store,                  \* StoreManager: persisted key -> value
  encryptedAccessToken,   \* RemoteServerConfigCtr.encryptedAccessToken
  encryptedRefreshToken,  \* RemoteServerConfigCtr.encryptedRefreshToken
  isRefreshing,           \* RemoteServerConfigCtr.isRefreshing
  codeVerifier,           \* AuthCtr.codeVerifier
  authRequestState,       \* AuthCtr.authRequestState
  encryptionAvailable,    \* safeStorage.isEncryptionAvailable()
  nonce,                  \* number of PKCE secrets drawn from crypto.randomBytes
  ra,                     \* requestAuthorization calls in progress
  cb,                     \* handleAuthCallback calls in progress
  rf,                     \* AuthCtr.refreshAccessToken calls in progress
  rq,                     \* intercepted requests in progress
  requestHandlers,        \* the request-handler hooks the host has registered
  unregisterRequestHandler, \* RemoteServerSyncCtr.unregisterRequestHandler
  initialized,            \* NetworkInterceptor.initialized
  ret                     \* what the step just taken returned to its caller

vars == <<store, encryptedAccessToken, encryptedRefreshToken, isRefreshing,
          codeVerifier, authRequestState, encryptionAvailable, nonce,
          ra, cb, rf, rq, requestHandlers, unregisterRequestHandler,
          initialized, ret>>

\* the state of the request hooks: the host's registry, the controller's
\* handle on its hook, the interceptor's flag
hostVars == <<requestHandlers, unregisterRequestHandler, initialized>>

(***************************************************************************)
(* Bounds                                                                  *)
(***************************************************************************)
MaxAuthRequests == 2   \* requestAuthorization calls that draw fresh secrets
MaxInFlight == 2       \* operations suspended on I/O at the same time

\* Task slots of each operation; MaxInFlight limits how many of all the slots
\* are in use at once.  A call takes the lowest free slot of its kind.
Slots == {1, 2}

\* The host's registry of request-handler hooks.  A hook is named by a
\* number; `app.registerRequestHandler(handler)` adds a hook and returns the
\* function that removes that hook again.
MaxHooks == 2          \* hooks the host can hold at once
HookIds == 1..MaxHooks
NoHook == 0            \* unregisterRequestHandler === undefined

(***************************************************************************)
(* Values                                                                  *)
(***************************************************************************)
Undefined == "undefined"          \* JS undefined / null for string slots
ServerUrls == {"https://a", "https://b/base"}
UrlInputs == ServerUrls \cup {"", "bad-url"}
AccessTokens == {"AT1", "AT2"}
RefreshTokens == {"RT1", "RT2"}
NoField == ""                     \* a JSON field that is missing (falsy)

\* new URL(path, base) succeeds only for an absolute base
IsValidUrl(u) == u \in ServerUrls
Origin(u) == IF u = "https://b/base" THEN "https://b" ELSE u
Falsy(s) == s = "" \/ s = Undefined

\* A PKCE secret (code verifier or state) is named by the number of the
\* requestAuthorization call that drew it and the serverUrl of that call.
NullSecret == [n |-> 0, url |-> ""]
Secrets == [n : 1..MaxAuthRequests, url : UrlInputs]

(***************************************************************************)
(* StoreManager                                                            *)
(***************************************************************************)
EmptyStore == [k \in {} |-> ""]
StoreGet(s, key, default) == IF key \in DOMAIN s THEN s[key] ELSE default
StoreSet(s, key, value) ==
  [k \in DOMAIN s \cup {key} |-> IF k = key THEN value ELSE s[k]]
StoreDelete(s, key) == [k \in DOMAIN s \ {key} |-> s[k]]

(***************************************************************************)
(* RemoteServerConfigCtr                                                   *)
(***************************************************************************)
getRemoteServerConfig(s) ==
  [isRemoteServerActive |-> StoreGet(s, "isRemoteServerActive", FALSE),
   remoteServerUrl      |-> StoreGet(s, "remoteServerUrl", "")]

\* setRemoteServerConfig that is left after its first write
setRemoteServerConfig_UrlOnly(s, config) ==
  StoreSet(s, "remoteServerUrl", config.remoteServerUrl)

setRemoteServerConfig(s, config) ==
  StoreSet(StoreSet(s, "remoteServerUrl", config.remoteServerUrl),
           "isRemoteServerActive", config.isRemoteServerActive)

\* clearRemoteServerConfigStore that deactivates but keeps the URL
clearRemoteServerConfigStore_KeepUrl(s) == StoreSet(s, "isRemoteServerActive", FALSE)

\* clearRemoteServerConfig: the store part (the tokens are cleared with it)
clearRemoteServerConfigStore(s) ==
  StoreSet(StoreDelete(s, "remoteServerUrl"), "isRemoteServerActive", FALSE)

\* safeStorage.encryptString followed by base64
EncryptString(t) == "enc(" \o t \o ")"
IsCiphertext(c) == \E t \in AccessTokens \cup RefreshTokens : c = EncryptString(t)
\* safeStorage.decryptString: throws unless the data is a ciphertext
DecryptString(c) ==
  CHOOSE t \in AccessTokens \cup RefreshTokens : c = EncryptString(t)

\* saveToken that never encrypts
saveToken_Raw(avail, t) == t

\* what saveTokens stores for one token
saveToken(avail, t) == IF avail THEN EncryptString(t) ELSE t

\* getAccessToken / getRefreshToken on one stored slot; Undefined = null
getToken(avail, stored) ==
  IF Falsy(stored) THEN Undefined
  ELSE IF ~avail THEN stored
  ELSE IF IsCiphertext(stored) THEN DecryptString(stored)
  ELSE Undefined

getAccessToken == getToken(encryptionAvailable, encryptedAccessToken)
getRefreshToken == getToken(encryptionAvailable, encryptedRefreshToken)

\* decryptString is reached and throws: a value is stored, encryption is
\* available, and the stored value is no ciphertext
decryptFails(avail, stored) ==
  ~Falsy(stored) /\ avail /\ ~IsCiphertext(stored)

\* getTokenCatch that lets the error through
getTokenCatch_Rethrow(thrown) == thrown

\* the try/catch around decryptString: whether an error thrown inside leaves
\* the method.  The catch logs it and returns null.
getTokenCatch(thrown) == FALSE

\* getAccessToken / getRefreshToken raises to its caller
getTokenRaises(avail, stored) == getTokenCatch(decryptFails(avail, stored))

(***************************************************************************)
(* Task slots                                                              *)
(***************************************************************************)
IdleRa == [pc |-> "idle", serverUrl |-> "", codeVerifier |-> NullSecret]
IdleCb == [pc |-> "idle", serverUrl |-> "", stateMatched |-> FALSE,
           pending |-> NullSecret, code |-> ""]
IdleRf == [pc |-> "idle", serverUrl |-> "", refreshToken |-> "",
           notActive |-> FALSE, noRefreshToken |-> FALSE]
IdleRq == [pc |-> "idle", version |-> "", req |-> <<>>, serverUrl |-> "",
           sent |-> <<>>, refreshCalls |-> 0, inactive |-> FALSE]
NoRet == [op |-> "none"]

InFlight ==
  Cardinality({i \in Slots : ra[i].pc # "idle"})
  + Cardinality({i \in Slots : cb[i].pc # "idle"})
  + Cardinality({i \in Slots : rf[i].pc # "idle"})
  + Cardinality({i \in Slots : rq[i].pc # "idle"})

\* slot i is the one a new call of the kind with slots f takes
Free(f, i) == f[i].pc = "idle" /\ \A j \in Slots : j < i => f[j].pc # "idle"
MaySuspend == InFlight < MaxInFlight

Init ==
  /\ store \in {EmptyStore} \cup
       {setRemoteServerConfig(EmptyStore,
          [isRemoteServerActive |-> a, remoteServerUrl |-> u]) :
            a \in BOOLEAN, u \in ServerUrls}
  /\ encryptedAccessToken = Undefined
  /\ encryptedRefreshToken = Undefined
  /\ isRefreshing = FALSE
  /\ codeVerifier = NullSecret
  /\ authRequestState = NullSecret
  /\ encryptionAvailable \in BOOLEAN
  /\ nonce = 0
  /\ ra = [i \in Slots |-> IdleRa]
  /\ cb = [i \in Slots |-> IdleCb]
  /\ rf = [i \in Slots |-> IdleRf]
  /\ rq = [i \in Slots |-> IdleRq]
  /\ requestHandlers = {}
  /\ unregisterRequestHandler = NoHook
  /\ initialized = FALSE
  /\ ret = NoRet

(***************************************************************************)
(* UI calls on RemoteServerConfigCtr                                       *)
(***************************************************************************)
SetRemoteServerConfig(config) ==
  /\ store' = setRemoteServerConfig(store, config)
  /\ ret' = [op |-> "setRemoteServerConfig", config |-> config]
  /\ UNCHANGED <<encryptedAccessToken, encryptedRefreshToken, isRefreshing,
                 codeVerifier, authRequestState, encryptionAvailable, nonce,
                 ra, cb, rf, rq>>
  /\ UNCHANGED hostVars

ClearRemoteServerConfig ==
  /\ store' = clearRemoteServerConfigStore(store)
  /\ encryptedAccessToken' = Undefined
  /\ encryptedRefreshToken' = Undefined
  /\ ret' = [op |-> "clearRemoteServerConfig",
             hadUrl |-> getRemoteServerConfig(store).remoteServerUrl # "",
             hadTokens |-> getAccessToken # Undefined /\ getRefreshToken # Undefined]
  /\ UNCHANGED <<isRefreshing, codeVerifier, authRequestState,
                 encryptionAvailable, nonce, ra, cb, rf, rq>>
  /\ UNCHANGED hostVars

(***************************************************************************)
(* AuthCtr.requestAuthorization                                            *)
(***************************************************************************)
\* requestAuthorizationConfig that already trusts the server
requestAuthorizationConfig_Active(serverUrl) ==
  [isRemoteServerActive |-> TRUE, remoteServerUrl |-> serverUrl]

\* the config requestAuthorization persists first: URL set, not yet active
requestAuthorizationConfig(serverUrl) ==
  [isRemoteServerActive |-> FALSE, remoteServerUrl |-> serverUrl]

\* entry up to `await this.generateCodeChallenge(codeVerifier)`
RequestAuthorization(i, serverUrl) ==
  /\ Free(ra, i)
  /\ MaySuspend
  /\ nonce < MaxAuthRequests
  /\ store' = setRemoteServerConfig(store, requestAuthorizationConfig(serverUrl))
  /\ nonce' = nonce + 1
  /\ ra' = [ra EXCEPT ![i] = [pc |-> "digest", serverUrl |-> serverUrl,
                 codeVerifier |-> [n |-> nonce + 1, url |-> serverUrl]]]
  /\ ret' = NoRet
  /\ UNCHANGED <<encryptedAccessToken, encryptedRefreshToken, isRefreshing,
                 codeVerifier, authRequestState, encryptionAvailable,
                 cb, rf, rq>>
  /\ UNCHANGED hostVars

\* openExternalError that takes a failed launch for a success
openExternalError_Ignored(opened) == ""

\* the message of the error caught when shell.openExternal rejects, "" if it
\* resolves
openExternalError(opened) == IF opened THEN "" ELSE "Failed to open URL"

\* what a requestAuthorization call returns.  browser tells what became of
\* the launch: "opened", "failed", or "none" when it was not attempted.
RequestAuthorizationRet(serverUrl, browser, error) ==
  [op |-> "requestAuthorization", serverUrl |-> serverUrl, browser |-> browser,
   success |-> error = "", error |-> error]

\* digest done: store the pending secrets, build the URL, open the browser
RequestAuthorizationDigest(i) ==
  /\ ra[i].pc = "digest"
  /\ codeVerifier' = ra[i].codeVerifier
  /\ authRequestState' = ra[i].codeVerifier
  /\ IF IsValidUrl(ra[i].serverUrl)
     THEN /\ ra' = [ra EXCEPT ![i].pc = "openExternal"]
          /\ ret' = NoRet
     ELSE /\ ra' = [ra EXCEPT ![i] = IdleRa]
          /\ ret' = RequestAuthorizationRet(ra[i].serverUrl, "none", "Invalid URL")
  /\ UNCHANGED <<store, encryptedAccessToken, encryptedRefreshToken,
                 isRefreshing, encryptionAvailable, nonce, cb, rf, rq>>
  /\ UNCHANGED hostVars

\* shell.openExternal resolves or rejects
RequestAuthorizationOpened(i, opened) ==
  /\ ra[i].pc = "openExternal"
  /\ ra' = [ra EXCEPT ![i] = IdleRa]
  /\ ret' = RequestAuthorizationRet(ra[i].serverUrl,
             IF opened THEN "opened" ELSE "failed", openExternalError(opened))
  /\ UNCHANGED <<store, encryptedAccessToken, encryptedRefreshToken,
                 isRefreshing, codeVerifier, authRequestState,
                 encryptionAvailable, nonce, cb, rf, rq>>
  /\ UNCHANGED hostVars

(***************************************************************************)
(* AuthCtr.handleAuthCallback / exchangeCodeForToken                       *)
(***************************************************************************)
\* values of the `state` query parameter: absent (null), or any secret; one
\* that is not the pending one is stale or forged
StateParams == {NullSecret} \cup Secrets
CodeParams == {"", "c1"}          \* "" = no code parameter

\* token endpoint replies: kind "error" = fetch rejects, "http" = non-2xx,
\* "ok" = 2xx with a JSON body holding the two (possibly missing) fields
TokenReplies ==
  {[kind |-> "error", access_token |-> NoField, refresh_token |-> NoField],
   [kind |-> "http", access_token |-> NoField, refresh_token |-> NoField]}
  \cup [kind : {"ok"}, access_token : AccessTokens \cup {NoField},
        refresh_token : RefreshTokens \cup {NoField}]

\* no request was sent to the token endpoint
NoReply == [kind |-> "none", access_token |-> NoField, refresh_token |-> NoField]

\* CallbackCheck that does not require the code parameter
CallbackCheck_CodeOptional(code, state, pendingState, config, verifier) ==
  IF state # pendingState THEN "Invalid state parameter"
  ELSE IF Falsy(config.remoteServerUrl) THEN "No server URL configured"
  ELSE IF verifier = NullSecret THEN "No code verifier found"
  ELSE ""

\* CallbackCheck with the state compared only when the parameter is present
CallbackCheck_StateOptional(code, state, pendingState, config, verifier) ==
  IF state # NullSecret /\ state # pendingState THEN "Invalid state parameter"
  ELSE IF code = "" THEN "No authorization code received"
  ELSE IF Falsy(config.remoteServerUrl) THEN "No server URL configured"
  ELSE IF verifier = NullSecret THEN "No code verifier found"
  ELSE ""

\* CallbackCheck that does not ask for a code verifier
CallbackCheck_NoVerifier(code, state, pendingState, config, verifier) ==
  IF state # pendingState THEN "Invalid state parameter"
  ELSE IF code = "" THEN "No authorization code received"
  ELSE IF Falsy(config.remoteServerUrl) THEN "No server URL configured"
  ELSE ""

\* the error thrown by the synchronous checks of handleAuthCallback, "" if none
CallbackCheck(code, state, pendingState, config, verifier) ==
  IF state # pendingState THEN "Invalid state parameter"
  ELSE IF code = "" THEN "No authorization code received"
  ELSE IF Falsy(config.remoteServerUrl) THEN "No server URL configured"
  ELSE IF verifier = NullSecret THEN "No code verifier found"
  ELSE ""

\* what a handleAuthCallback call returns and broadcasts.  stateMatched tells
\* whether the call's `state` parameter was the pending state and code is its
\* `code` parameter; requestedUrl is the serverUrl of the requestAuthorization
\* call that issued that state; reply is the token endpoint's answer;
\* failedWith is the message broadcast with authorizationFailed.
CallbackRet(success, error, requests, stateMatched, pending, reply, code) ==
  [op |-> "handleAuthCallback",
   success |-> success, error |-> error,
   events |-> IF success THEN <<"authorizationSuccessful">>
              ELSE <<"authorizationFailed">>,
   failedWith |-> IF success THEN ""
                  ELSE IF error = "" THEN "Unknown error" ELSE error,
   tokenRequests |-> requests, stateMatched |-> stateMatched,
   code |-> code, reply |-> reply,
   requestedUrl |-> IF success THEN pending.url ELSE "",
   access_token |-> IF success THEN reply.access_token ELSE NoField,
   refresh_token |-> IF success THEN reply.refresh_token ELSE NoField]

\* CallbackFinally that forgets the state but keeps the code verifier
CallbackFinally_StateOnly ==
  /\ authRequestState' = NullSecret
  /\ codeVerifier' = codeVerifier

\* the `finally` of handleAuthCallback
CallbackFinally ==
  /\ authRequestState' = NullSecret
  /\ codeVerifier' = NullSecret

\* entry of handleAuthCallback up to the fetch of exchangeCodeForToken
HandleAuthCallback(i, code, state) ==
  LET config  == getRemoteServerConfig(store)
      error   == CallbackCheck(code, state, authRequestState, config, codeVerifier)
      matched == state = authRequestState
      failed(e) == CallbackRet(FALSE, e, 0, matched, authRequestState,
                               NoReply, code)
  IN
  /\ Free(cb, i)
  /\ IF error # ""
     THEN /\ ret' = failed(error)
          /\ CallbackFinally
          /\ cb' = cb
     ELSE IF ~IsValidUrl(config.remoteServerUrl)
     THEN \* new URL('/oauth/token', serverUrl) throws inside exchangeCodeForToken
          /\ ret' = failed("Invalid URL")
          /\ CallbackFinally
          /\ cb' = cb
     ELSE /\ MaySuspend
          /\ cb' = [cb EXCEPT ![i] = [pc |-> "exchange",
                      serverUrl |-> config.remoteServerUrl,
                      stateMatched |-> matched, pending |-> authRequestState,
                      code |-> code]]
          /\ ret' = NoRet
          /\ UNCHANGED <<authRequestState, codeVerifier>>
  /\ UNCHANGED <<store, encryptedAccessToken, encryptedRefreshToken,
                 isRefreshing, encryptionAvailable, nonce, ra, rf, rq>>
  /\ UNCHANGED hostVars

\* URLs of the app's scheme the operating system hands over: the auth
\* callback or another URL, with the query parameters it carries
OpenedUrls == [callback : BOOLEAN, code : CodeParams, state : StateParams]

\* isAuthCallback that takes every URL for the callback
isAuthCallback_AnyUrl(url) == TRUE

\* url.startsWith('lobe-chat-desktop://auth/callback')
isAuthCallback(url) == url.callback

\* NetworkInterceptor.handleUrlOpen: the callback URL goes to
\* AuthCtr.handleAuthCallback, any other URL is dropped
HandleUrlOpen(i, url) ==
  IF isAuthCallback(url)
  THEN HandleAuthCallback(i, url.code, url.state)
  ELSE /\ ret' = [op |-> "handleUrlOpen", handled |-> FALSE]
       /\ UNCHANGED <<store, encryptedAccessToken, encryptedRefreshToken,
                      isRefreshing, codeVerifier, authRequestState,
                      encryptionAvailable, nonce, ra, cb, rf, rq>>
       /\ UNCHANGED hostVars

\* exchangeOk that accepts a body without refresh_token
exchangeOk_AccessOnly(reply) ==
  reply.kind = "ok" /\ reply.access_token # NoField

\* exchangeCodeForToken: response.ok and both token fields present
exchangeOk(reply) ==
  reply.kind = "ok" /\ reply.access_token # NoField
                    /\ reply.refresh_token # NoField

\* the token endpoint answers the code exchange
ExchangeReply(i, reply) ==
  LET ok == exchangeOk(reply)
      error == IF reply.kind = "error" THEN "fetch failed"
               ELSE IF reply.kind = "http" THEN "token request failed"
               ELSE "Invalid token response: missing required fields"
  IN
  /\ cb[i].pc = "exchange"
  /\ IF ok
     THEN /\ encryptedAccessToken' = saveToken(encryptionAvailable, reply.access_token)
          /\ encryptedRefreshToken' = saveToken(encryptionAvailable, reply.refresh_token)
          /\ store' = setRemoteServerConfig(store,
               [isRemoteServerActive |-> TRUE, remoteServerUrl |-> cb[i].serverUrl])
     ELSE UNCHANGED <<encryptedAccessToken, encryptedRefreshToken, store>>
  /\ ret' = CallbackRet(ok, IF ok THEN "" ELSE error, 1, cb[i].stateMatched,
                        cb[i].pending, reply, cb[i].code)
  /\ CallbackFinally
  /\ cb' = [cb EXCEPT ![i] = IdleCb]
  /\ UNCHANGED <<isRefreshing, encryptionAvailable, nonce, ra, rf, rq>>
  /\ UNCHANGED hostVars

(***************************************************************************)
(* AuthCtr.refreshAccessToken (the `refreshAccessToken` IPC event)         *)
(***************************************************************************)
\* refreshedRefreshToken that takes whatever the answer holds
refreshedRefreshToken_FromReply(reply, refreshToken) == reply.refresh_token

\* `data.refresh_token || refreshToken`: the second argument of the saveTokens
\* call of refreshAccessToken
refreshedRefreshToken(reply, refreshToken) ==
  IF reply.refresh_token # NoField THEN reply.refresh_token ELSE refreshToken

\* what a refreshAccessToken call returns and broadcasts.  `entry` tells what
\* held when the call was made: a refresh was marked in progress, the config
\* was inactive or without URL, no refresh token was stored, the refresh
\* token it read; and the token endpoint's answer.  access_token and
\* refresh_token are the arguments of its saveTokens call.
RefreshRet(success, error, requests, events, entry) ==
  [op |-> "refreshAccessToken",
   success |-> success, error |-> error, events |-> events,
   tokenRequests |-> requests, wasRefreshing |-> entry.wasRefreshing,
   notActive |-> entry.notActive, noRefreshToken |-> entry.noRefreshToken,
   reply |-> entry.reply, oldRefreshToken |-> entry.refreshToken,
   access_token |-> IF success THEN entry.reply.access_token ELSE NoField,
   refresh_token |-> IF success
                     THEN refreshedRefreshToken(entry.reply, entry.refreshToken)
                     ELSE NoField]

\* RefreshCatchConfig that forgets the stored URL
RefreshCatchConfig_DropUrl(s) ==
  [isRemoteServerActive |-> FALSE, remoteServerUrl |-> ""]

\* the config the `catch` of refreshAccessToken writes
RefreshCatchConfig(s) ==
  [isRemoteServerActive |-> FALSE,
   remoteServerUrl |-> getRemoteServerConfig(s).remoteServerUrl]

\* the `catch` of refreshAccessToken: clear the tokens, deactivate, broadcast
RefreshCatch(error, requests, entry) ==
  /\ encryptedAccessToken' = Undefined
  /\ encryptedRefreshToken' = Undefined
  /\ store' = setRemoteServerConfig(store, RefreshCatchConfig(store))
  /\ ret' = RefreshRet(FALSE, error, requests, <<"authorizationRequired">>, entry)

\* RefreshFinally that leaves the flag as it is
RefreshFinally_Skip == isRefreshing' = isRefreshing

\* the `finally` of refreshAccessToken: setTokenRefreshing(false)
RefreshFinally == isRefreshing' = FALSE

\* RefreshCheck that looks for the refresh token before the config
RefreshCheck_TokenFirst(config, refreshToken) ==
  IF Falsy(refreshToken) THEN "No refresh token available"
  ELSE IF Falsy(config.remoteServerUrl) \/ ~config.isRemoteServerActive
  THEN "Remote server not active"
  ELSE IF ~IsValidUrl(config.remoteServerUrl) THEN "Invalid URL"
  ELSE ""

\* the error thrown before the fetch of refreshAccessToken, "" if none
RefreshCheck(config, refreshToken) ==
  IF Falsy(config.remoteServerUrl) \/ ~config.isRemoteServerActive
  THEN "Remote server not active"
  ELSE IF Falsy(refreshToken) THEN "No refresh token available"
  ELSE IF ~IsValidUrl(config.remoteServerUrl) THEN "Invalid URL"
  ELSE ""

\* entry of refreshAccessToken up to its fetch
RefreshAccessToken(i) ==
  LET config == getRemoteServerConfig(store)
      error  == RefreshCheck(config, getRefreshToken)
      entry  == [wasRefreshing |-> isRefreshing,
                 notActive |-> ~config.isRemoteServerActive
                               \/ config.remoteServerUrl = "",
                 noRefreshToken |-> getRefreshToken = Undefined,
                 reply |-> NoReply, refreshToken |-> getRefreshToken]
  IN
  /\ Free(rf, i)
  /\ IF isRefreshing
     THEN \* early return inside `try`: the `finally` still runs
          /\ ret' = RefreshRet(FALSE, "Token refresh already in progress", 0,
                               <<>>, entry)
          /\ RefreshFinally
          /\ UNCHANGED <<store, encryptedAccessToken, encryptedRefreshToken, rf>>
     ELSE IF error # ""
     THEN /\ RefreshCatch(error, 0, entry)
          /\ RefreshFinally
          /\ rf' = rf
     ELSE /\ MaySuspend
          /\ isRefreshing' = TRUE
          /\ rf' = [rf EXCEPT ![i] = [pc |-> "fetch",
                      serverUrl |-> config.remoteServerUrl,
                      refreshToken |-> getRefreshToken,
                      notActive |-> entry.notActive,
                      noRefreshToken |-> entry.noRefreshToken]]
          /\ ret' = NoRet
          /\ UNCHANGED <<store, encryptedAccessToken, encryptedRefreshToken>>
  /\ UNCHANGED <<codeVerifier, authRequestState, encryptionAvailable, nonce,
                 ra, cb, rq>>
  /\ UNCHANGED hostVars

\* the token endpoint answers the refresh request
RefreshReply(i, reply) ==
  LET ok == reply.kind = "ok" /\ reply.access_token # NoField
      error == IF reply.kind = "error" THEN "fetch failed"
               ELSE IF reply.kind = "http" THEN "token request failed"
               ELSE "Invalid token response: missing required fields"
      entry == [wasRefreshing |-> FALSE, notActive |-> rf[i].notActive,
                noRefreshToken |-> rf[i].noRefreshToken,
                reply |-> reply, refreshToken |-> rf[i].refreshToken]
  IN
  /\ rf[i].pc = "fetch"
  /\ IF ok
     THEN /\ encryptedAccessToken' = saveToken(encryptionAvailable, reply.access_token)
          /\ encryptedRefreshToken' = saveToken(encryptionAvailable,
               refreshedRefreshToken(reply, rf[i].refreshToken))
          /\ store' = store
          /\ ret' = RefreshRet(TRUE, "", 1, <<"tokenRefreshed">>, entry)
     ELSE RefreshCatch(error, 1, entry)
  /\ RefreshFinally
  /\ rf' = [rf EXCEPT ![i] = IdleRf]
  /\ UNCHANGED <<codeVerifier, authRequestState, encryptionAvailable, nonce,
                 ra, cb, rq>>
  /\ UNCHANGED hostVars

(***************************************************************************)
(* RemoteServerSyncCtr: the request handler and refreshTokenIfNeeded       *)
(***************************************************************************)
\* The source holds two versions of the controller: "api" is
\* registerApiRequestHandler, "trpc" is registerTrpcRequestHandler.
HandlerVersions == {"api", "trpc"}

trpcProxyPath == {<<"trpc", "lambda">>, <<"trpc", "tools">>, <<"trpc", "async">>}

\* Intercepted requests: the path as its segments below http://localhost:3015
Paths == {<<"trpc", "lambda", "q">>, <<"trpc", "tools", "q">>,
          <<"x", "trpc", "lambda">>, <<"other">>}
Requests ==
  [path : Paths, search : {""}, method : {"GET"}, body : {""}]
  \cup [path : Paths, search : {"?a=1"}, method : {"POST"}, body : {"b1"}]

\* request.url.includes('/' + prefix)
UrlIncludes(req, prefix) ==
  \E k \in 1..Len(req.path) :
    /\ k + Len(prefix) - 1 <= Len(req.path)
    /\ SubSeq(req.path, k, k + Len(prefix) - 1) = prefix

\* originalUrl.pathname starts with '/' + prefix
PathStartsWith(req, prefix) ==
  /\ Len(prefix) <= Len(req.path)
  /\ SubSeq(req.path, 1, Len(prefix)) = prefix

isApiRequest(version, req) ==
  IF version = "api"
  THEN \E prefix \in trpcProxyPath : UrlIncludes(req, prefix)
  ELSE UrlIncludes(req, <<"trpc", "lambda">>)

\* reading a property of a JS object: undefined (falsy) when it has none
Field(object, name) == IF name \in DOMAIN object THEN object[name] ELSE FALSE

\* the property of the config each version of the handler tests
activeField(version) ==
  IF version = "api" THEN "active" ELSE "isRemoteServerActive"

\* notActive that tests the URL only
notActive_UrlOnly(version, config) == Falsy(config.remoteServerUrl)

\* the handler's test `!config.<active> || !config.remoteServerUrl`
notActive(version, config) ==
  ~Field(config, activeField(version)) \/ Falsy(config.remoteServerUrl)

\* the methods of RemoteServerConfigCtr; calling any other name on it throws
RemoteServerConfigCtrMethods ==
  {"getRemoteServerConfig", "setRemoteServerConfig", "clearRemoteServerConfig",
   "saveTokens", "getAccessToken", "getRefreshToken", "clearTokens",
   "isTokenRefreshing", "setTokenRefreshing"}

\* refreshTokenIfNeeded when no refresh is marked in progress.  It returns
\* false when the config is not active; otherwise it calls
\* `this.remoteServerConfigCtr.refreshAccessToken()`, which is no method of
\* RemoteServerConfigCtr: the call throws, the catch returns false, and no
\* refresh is ever started from the handler.
refreshTokenIfNeededNow(version, s) ==
  /\ Field(getRemoteServerConfig(s), activeField(version))
  /\ "refreshAccessToken" \in RemoteServerConfigCtrMethods

\* what the handler forwards: fetch(targetUrl, {body, headers, method})
Forwarded(req, serverUrl, token) ==
  [origin |-> Origin(serverUrl), path |-> req.path, search |-> req.search,
   method |-> req.method, body |-> req.body, authorization |-> token]

\* forward replies: 0 = the fetch rejects, otherwise the response status
ForwardReplies == {0, 200, 401}

\* what the handler returns for a request, with what it did for it:
\* proxied = the request's path starts with a proxied prefix, matched = the
\* handler's own test took the request for one it handles, sent = the
\* forward calls issued, refreshCalls = the refreshTokenIfNeeded calls made,
\* inactiveAtArrival = the stored config was inactive or without URL on entry
HandlerRet(version, req, outcome, status, sent, refreshCalls, inactive) ==
  [op |-> "handler", version |-> version,
   proxied |-> \E prefix \in trpcProxyPath : PathStartsWith(req, prefix),
   matched |-> isApiRequest(version, req),
   outcome |-> outcome, status |-> status, sent |-> sent,
   refreshCalls |-> refreshCalls, inactiveAtArrival |-> inactive]

\* mayForward that does not look at the token
mayForward_AnyToken(token, serverUrl) == IsValidUrl(serverUrl)

\* the handler goes on to its fetch: a token was read and the URL rewrite
\* `new URL(pathname + search, remoteServerUrl)` did not throw
mayForward(token, serverUrl) == ~Falsy(token) /\ IsValidUrl(serverUrl)

\* from the second getAccessToken() to the first fetch
ForwardFirst(i, version, req, serverUrl, refreshCalls, inactive) ==
  IF ~mayForward(getAccessToken, serverUrl)
  THEN /\ rq' = [rq EXCEPT ![i] = IdleRq]
       /\ ret' = HandlerRet(version, req, "null", 0, <<>>, refreshCalls, inactive)
  ELSE /\ rq' = [rq EXCEPT ![i] = [pc |-> "fetch1", version |-> version,
                   req |-> req, serverUrl |-> serverUrl,
                   sent |-> <<Forwarded(req, serverUrl, getAccessToken)>>,
                   refreshCalls |-> refreshCalls, inactive |-> inactive]]
       /\ ret' = NoRet

\* a request reaches the handler, which the host calls while a hook is
\* registered: up to its first suspension
HandleRequest(i, version, req) ==
  LET config   == getRemoteServerConfig(store)
      inactive == ~config.isRemoteServerActive \/ config.remoteServerUrl = ""
  IN
  /\ requestHandlers # {}
  /\ Free(rq, i)
  /\ IF ~isApiRequest(version, req)
     THEN /\ ret' = HandlerRet(version, req, "null", 0, <<>>, 0, inactive)
          /\ rq' = rq
     ELSE IF notActive(version, config)
     THEN /\ ret' = HandlerRet(version, req, "null", 0, <<>>, 0, inactive)
          /\ rq' = rq
     ELSE IF ~Falsy(getAccessToken)
     THEN /\ MaySuspend \/ ~IsValidUrl(config.remoteServerUrl)
          /\ ForwardFirst(i, version, req, config.remoteServerUrl, 0, inactive)
     ELSE IF isRefreshing
     THEN /\ MaySuspend
          /\ rq' = [rq EXCEPT ![i] = [pc |-> "wait1", version |-> version,
                      req |-> req, serverUrl |-> config.remoteServerUrl,
                      sent |-> <<>>, refreshCalls |-> 1,
                      inactive |-> inactive]]
          /\ ret' = NoRet
     ELSE /\ ~refreshTokenIfNeededNow(version, store)
          /\ ret' = HandlerRet(version, req, "null", 0, <<>>, 1, inactive)
          /\ rq' = rq
  /\ UNCHANGED <<store, encryptedAccessToken, encryptedRefreshToken,
                 isRefreshing, codeVerifier, authRequestState,
                 encryptionAvailable, nonce, ra, cb, rf>>
  /\ UNCHANGED hostVars

\* the 2000 ms timer of refreshTokenIfNeeded fires before the first forward
RequestWaited(i) ==
  /\ rq[i].pc = "wait1"
  /\ ForwardFirst(i, rq[i].version, rq[i].req, rq[i].serverUrl,
                  rq[i].refreshCalls, rq[i].inactive)
  /\ UNCHANGED <<store, encryptedAccessToken, encryptedRefreshToken,
                 isRefreshing, codeVerifier, authRequestState,
                 encryptionAvailable, nonce, ra, cb, rf>>
  /\ UNCHANGED hostVars

\* the first forward completes
ForwardReply(i, status) ==
  LET t == rq[i]
      done(outcome, calls) ==
        /\ rq' = [rq EXCEPT ![i] = IdleRq]
        /\ ret' = HandlerRet(t.version, t.req, outcome, status, t.sent, calls,
                             t.inactive)
  IN
  /\ rq[i].pc = "fetch1"
  /\ IF status = 0 THEN done("null", t.refreshCalls)
     ELSE IF status # 401 THEN done("response", t.refreshCalls)
     ELSE IF isRefreshing
     THEN /\ rq' = [rq EXCEPT ![i].pc = "wait2",
                               ![i].refreshCalls = t.refreshCalls + 1]
          /\ ret' = NoRet
     ELSE /\ ~refreshTokenIfNeededNow(t.version, store)
          /\ done("response", t.refreshCalls + 1)
  /\ UNCHANGED <<store, encryptedAccessToken, encryptedRefreshToken,
                 isRefreshing, codeVerifier, authRequestState,
                 encryptionAvailable, nonce, ra, cb, rf>>
  /\ UNCHANGED hostVars

\* the 2000 ms timer fires after a 401: read the token again and retry
RetryWaited(i) ==
  LET t == rq[i] IN
  /\ rq[i].pc = "wait2"
  /\ IF Falsy(getAccessToken)
     THEN /\ rq' = [rq EXCEPT ![i] = IdleRq]
          /\ ret' = HandlerRet(t.version, t.req, "response", 401, t.sent,
                               t.refreshCalls, t.inactive)
     ELSE /\ rq' = [rq EXCEPT ![i].pc = "fetch2",
                      ![i].sent = Append(t.sent,
                         Forwarded(t.req, t.serverUrl, getAccessToken))]
          /\ ret' = NoRet
  /\ UNCHANGED <<store, encryptedAccessToken, encryptedRefreshToken,
                 isRefreshing, codeVerifier, authRequestState,
                 encryptionAvailable, nonce, ra, cb, rf>>
  /\ UNCHANGED hostVars

\* RetryReply that treats a 401 on the retry like the first one: forward again
RetryReply_Again(i, status) ==
  LET t == rq[i] IN
  /\ rq[i].pc = "fetch2"
  /\ IF status = 401 /\ ~Falsy(getAccessToken)
     THEN /\ rq' = [rq EXCEPT ![i].sent = Append(t.sent,
                       Forwarded(t.req, t.serverUrl, getAccessToken))]
          /\ ret' = NoRet
     ELSE /\ rq' = [rq EXCEPT ![i] = IdleRq]
          /\ ret' = HandlerRet(t.version, t.req,
                       IF status = 0 THEN "rejected" ELSE "response",
                       status, t.sent, t.refreshCalls, t.inactive)
  /\ UNCHANGED <<store, encryptedAccessToken, encryptedRefreshToken,
                 isRefreshing, codeVerifier, authRequestState,
                 encryptionAvailable, nonce, ra, cb, rf>>
  /\ UNCHANGED hostVars

\* the retry completes; its promise was returned without `await`, so a
\* rejection is not caught by the handler's try/catch
RetryReply(i, status) ==
  LET t == rq[i] IN
  /\ rq[i].pc = "fetch2"
  /\ rq' = [rq EXCEPT ![i] = IdleRq]
  /\ ret' = HandlerRet(t.version, t.req,
                       IF status = 0 THEN "rejected" ELSE "response",
                       status, t.sent, t.refreshCalls, t.inactive)
  /\ UNCHANGED <<store, encryptedAccessToken, encryptedRefreshToken,
                 isRefreshing, codeVerifier, authRequestState,
                 encryptionAvailable, nonce, ra, cb, rf>>
  /\ UNCHANGED hostVars

(***************************************************************************)
(* The request hooks: RemoteServerSyncCtr's handler registered with the    *)
(* host, and NetworkInterceptor's session-level redirect.                  *)
(***************************************************************************)
\* the hook a registration adds: the lowest number the host has not in use
NewHook(handlers) ==
  CHOOSE h \in HookIds \ handlers : \A g \in HookIds \ handlers : h <= g

\* calling the function `app.registerRequestHandler` returned for hook h
Unregister(handlers, h) == handlers \ {h}

\* unregisterPrevious that leaves the old hook registered
unregisterPrevious_Skip(handlers, unregister) == handlers

\* `if (this.unregisterRequestHandler) { this.unregisterRequestHandler();
\* this.unregisterRequestHandler = undefined }`: the host's hooks afterwards
unregisterPrevious(handlers, unregister) ==
  IF unregister # NoHook THEN Unregister(handlers, unregister) ELSE handlers

\* registerApiRequestHandler / registerTrpcRequestHandler: unregister the
\* hook held, register the handler, keep the function that unregisters it
RegisterRequestHandler ==
  LET remaining == unregisterPrevious(requestHandlers, unregisterRequestHandler)
  IN
  /\ HookIds \ remaining # {}
  /\ requestHandlers' = remaining \cup {NewHook(remaining)}
  /\ unregisterRequestHandler' = NewHook(remaining)

\* App.bootstrap: makeAppReady calls every controller's afterAppReady, and
\* when it has resolved the network interceptor is initialized, with no
\* event served in between
Bootstrap ==
  /\ ~initialized
  /\ RegisterRequestHandler
  /\ initialized' = TRUE
  /\ ret' = [op |-> "bootstrap",
             replaced |-> unregisterRequestHandler # NoHook]
  /\ UNCHANGED <<store, encryptedAccessToken, encryptedRefreshToken,
                 isRefreshing, codeVerifier, authRequestState,
                 encryptionAvailable, nonce, ra, cb, rf, rq>>

\* RemoteServerSyncCtr.afterAppReady
AfterAppReady ==
  /\ RegisterRequestHandler
  /\ ret' = [op |-> "afterAppReady",
             replaced |-> unregisterRequestHandler # NoHook]
  /\ UNCHANGED <<store, encryptedAccessToken, encryptedRefreshToken,
                 isRefreshing, codeVerifier, authRequestState,
                 encryptionAvailable, nonce, ra, cb, rf, rq, initialized>>

\* RemoteServerSyncCtr.startRemoteSync
StartRemoteSync ==
  /\ RegisterRequestHandler
  /\ ret' = [op |-> "startRemoteSync", result |-> TRUE,
             replaced |-> unregisterRequestHandler # NoHook]
  /\ UNCHANGED <<store, encryptedAccessToken, encryptedRefreshToken,
                 isRefreshing, codeVerifier, authRequestState,
                 encryptionAvailable, nonce, ra, cb, rf, rq, initialized>>

\* RemoteServerSyncCtr.stopRemoteSync
StopRemoteSync ==
  /\ requestHandlers' =
       unregisterPrevious(requestHandlers, unregisterRequestHandler)
  /\ unregisterRequestHandler' = NoHook
  /\ ret' = [op |-> "stopRemoteSync", result |-> TRUE]
  /\ UNCHANGED <<store, encryptedAccessToken, encryptedRefreshToken,
                 isRefreshing, codeVerifier, authRequestState,
                 encryptionAvailable, nonce, ra, cb, rf, rq, initialized>>

\* the prefixes NetworkInterceptor redirects: '/api/', '/trpc/', '/webapi/'
InterceptedPrefixes == {"api", "trpc", "webapi"}

\* urlObj.pathname.startsWith(prefix) for one of the prefixes: the first
\* segment is the prefix and the slash after it is there
isInterceptedPath(req) ==
  Len(req.path) >= 2 /\ req.path[1] \in InterceptedPrefixes

NoRedirect == [origin |-> "", path |-> <<>>, search |-> ""]

\* onBeforeRequest's answer for a request of the app's own origin: {} or
\* { redirectURL: new URL(pathname + search, remoteServerUrl) }
redirectURL(config, req) ==
  IF ~config.isRemoteServerActive \/ Falsy(config.remoteServerUrl)
  THEN NoRedirect
  ELSE IF isInterceptedPath(req) /\ IsValidUrl(config.remoteServerUrl)
  THEN [origin |-> Origin(config.remoteServerUrl), path |-> req.path,
        search |-> req.search]
  ELSE NoRedirect

\* session.webRequest.onBeforeRequest for a request the app's page sends
OnBeforeRequest(req) ==
  /\ initialized
  /\ ret' = [op |-> "onBeforeRequest",
             proxied |-> \E prefix \in trpcProxyPath : PathStartsWith(req, prefix),
             syncing |-> unregisterRequestHandler # NoHook,
             redirectURL |-> redirectURL(getRemoteServerConfig(store), req)]
  /\ UNCHANGED <<store, encryptedAccessToken, encryptedRefreshToken,
                 isRefreshing, codeVerifier, authRequestState,
                 encryptionAvailable, nonce, ra, cb, rf, rq>>
  /\ UNCHANGED hostVars

\* what a getAccessToken / getRefreshToken call returns, with what it found
GetTokenRet(op, stored) ==
  [op |-> op,
   raised |-> getTokenRaises(encryptionAvailable, stored),
   value |-> IF getTokenRaises(encryptionAvailable, stored) THEN Undefined
             ELSE getToken(encryptionAvailable, stored),
   absent |-> Falsy(stored),
   decryptFailed |-> decryptFails(encryptionAvailable, stored)]

\* RemoteServerConfigCtr.getAccessToken called on its own
GetAccessToken ==
  /\ ret' = GetTokenRet("getAccessToken", encryptedAccessToken)
  /\ UNCHANGED <<store, encryptedAccessToken, encryptedRefreshToken,
                 isRefreshing, codeVerifier, authRequestState,
                 encryptionAvailable, nonce, ra, cb, rf, rq>>
  /\ UNCHANGED hostVars

\* RemoteServerConfigCtr.getRefreshToken called on its own
GetRefreshToken ==
  /\ ret' = GetTokenRet("getRefreshToken", encryptedRefreshToken)
  /\ UNCHANGED <<store, encryptedAccessToken, encryptedRefreshToken,
                 isRefreshing, codeVerifier, authRequestState,
                 encryptionAvailable, nonce, ra, cb, rf, rq>>
  /\ UNCHANGED hostVars

\* safeStorage.isEncryptionAvailable() is asked on every call and answers
\* for the platform's key store as it is then: the answer changes when the
\* key store becomes available or goes away
EncryptionAvailability(avail) ==
  /\ encryptionAvailable' = avail
  /\ ret' = NoRet
  /\ UNCHANGED <<store, encryptedAccessToken, encryptedRefreshToken,
                 isRefreshing, codeVerifier, authRequestState, nonce,
                 ra, cb, rf, rq>>
  /\ UNCHANGED hostVars

\* origins of the requests the session sends: the two servers, the app's
\* own page, a third party
Destinations == {"https://a", "https://b", "http://localhost:3015",
                 "https://other"}

\* the request headers as far as the interceptor touches them: the
\* Authorization header, NoField when the request has none
HeadersIn == [Authorization : {NoField, "Basic page"}]

\* isRemoteServerRequest that holds for every destination
isRemoteServerRequest_Any(origin, serverUrl) == TRUE

\* urlObj.origin === new URL(config.remoteServerUrl).origin
isRemoteServerRequest(origin, serverUrl) == origin = Origin(serverUrl)

\* the headers onBeforeSendHeaders passes on.  `new URL(remoteServerUrl)`
\* throws for a URL that is not absolute; the catch leaves the headers.
requestHeaders(config, token, origin, headers) ==
  IF ~config.isRemoteServerActive \/ Falsy(config.remoteServerUrl)
  THEN headers
  ELSE IF ~IsValidUrl(config.remoteServerUrl) THEN headers
  ELSE IF isRemoteServerRequest(origin, config.remoteServerUrl) /\ ~Falsy(token)
  THEN [headers EXCEPT !.Authorization = "Bearer " \o token]
  ELSE headers

\* session.webRequest.onBeforeSendHeaders for a request to `origin`
OnBeforeSendHeaders(origin, headers) ==
  /\ initialized
  /\ ret' = [op |-> "onBeforeSendHeaders", origin |-> origin,
             headers |-> headers,
             requestHeaders |-> requestHeaders(getRemoteServerConfig(store),
                                  getAccessToken, origin, headers)]
  /\ UNCHANGED <<store, encryptedAccessToken, encryptedRefreshToken,
                 isRefreshing, codeVerifier, authRequestState,
                 encryptionAvailable, nonce, ra, cb, rf, rq>>
  /\ UNCHANGED hostVars

\* the UI's setRemoteServerConfig call with any configuration
SetAnyConfig ==
  \E a \in BOOLEAN, u \in UrlInputs :
    SetRemoteServerConfig([isRemoteServerActive |-> a, remoteServerUrl |-> u])

(***************************************************************************)
(* The whole program: every operation, every input, every slot.  Its state *)
(* space has more than six million states; the properties below are stated *)
(* under the two restrictions AuthSpec and ProxySpec that follow.          *)
(***************************************************************************)
Next ==
  \/ SetAnyConfig
  \/ ClearRemoteServerConfig
  \/ \E i \in Slots, u \in UrlInputs : RequestAuthorization(i, u)
  \/ \E i \in Slots : RequestAuthorizationDigest(i)
  \/ \E i \in Slots, opened \in BOOLEAN : RequestAuthorizationOpened(i, opened)
  \/ \E i \in Slots, code \in CodeParams, state \in StateParams :
       HandleAuthCallback(i, code, state)
  \/ \E i \in Slots, reply \in TokenReplies : ExchangeReply(i, reply)
  \/ \E i \in Slots : RefreshAccessToken(i)
  \/ \E i \in Slots, reply \in TokenReplies : RefreshReply(i, reply)
  \/ \E i \in Slots, version \in HandlerVersions, req \in Requests :
       HandleRequest(i, version, req)
  \/ \E i \in Slots : RequestWaited(i)
  \/ \E i \in Slots, status \in ForwardReplies : ForwardReply(i, status)
  \/ \E i \in Slots : RetryWaited(i)
  \/ \E i \in Slots, status \in ForwardReplies : RetryReply(i, status)
  \/ Bootstrap
  \/ AfterAppReady
  \/ StartRemoteSync
  \/ StopRemoteSync
  \/ \E req \in Requests : OnBeforeRequest(req)
  \/ GetAccessToken
  \/ GetRefreshToken
  \/ \E avail \in BOOLEAN : EncryptionAvailability(avail)
  \/ \E i \in Slots, url \in OpenedUrls : HandleUrlOpen(i, url)
  \/ \E origin \in Destinations, headers \in HeadersIn :
       OnBeforeSendHeaders(origin, headers)

Spec == Init /\ [][Next]_vars

(***************************************************************************)
(* The authorization flow and the credential store: one call of each       *)
(* operation at a time, no intercepted requests.  The request handler      *)
(* writes none of the variables these operations read.                     *)
(***************************************************************************)
AuthNext ==
  \/ SetAnyConfig
  \/ ClearRemoteServerConfig
  \/ \E u \in UrlInputs : RequestAuthorization(1, u)
  \/ RequestAuthorizationDigest(1)
  \/ \E opened \in BOOLEAN : RequestAuthorizationOpened(1, opened)
  \/ \E code \in CodeParams, state \in StateParams :
       HandleAuthCallback(1, code, state)
  \/ \E reply \in TokenReplies : ExchangeReply(1, reply)
  \/ RefreshAccessToken(1)
  \/ \E reply \in TokenReplies : RefreshReply(1, reply)

AuthSpec == Init /\ [][AuthNext]_vars

(***************************************************************************)
(* The request handler with the operations that change what it reads: one  *)
(* intercepted request at a time, one authorization (the callback carrying *)
(* the pending state and a code), refreshes and configuration changes.     *)
(***************************************************************************)
ProxyNext ==
  \/ SetAnyConfig
  \/ ClearRemoteServerConfig
  \/ \E u \in ServerUrls : nonce = 0 /\ RequestAuthorization(1, u)
  \/ RequestAuthorizationDigest(1)
  \/ RequestAuthorizationOpened(1, TRUE)
  \/ HandleAuthCallback(1, "c1", authRequestState)
  \/ \E reply \in TokenReplies : ExchangeReply(1, reply)
  \/ RefreshAccessToken(1)
  \/ \E reply \in TokenReplies : RefreshReply(1, reply)
  \/ \E version \in HandlerVersions, req \in Requests :
       HandleRequest(1, version, req)
  \/ RequestWaited(1)
  \/ \E status \in ForwardReplies : ForwardReply(1, status)
  \/ RetryWaited(1)
  \/ \E status \in ForwardReplies : RetryReply(1, status)
  \/ Bootstrap

ProxySpec == Init /\ [][ProxyNext]_vars

\* every forward call is answered or fails in the end, and every timer the
\* handler waits on fires
ProxyLiveSpec ==
  /\ ProxySpec
  /\ WF_vars(RequestWaited(1))
  /\ WF_vars(\E status \in ForwardReplies : ForwardReply(1, status))
  /\ WF_vars(RetryWaited(1))
  /\ WF_vars(\E status \in ForwardReplies : RetryReply(1, status))

(***************************************************************************)
(* Overlapping refreshAccessToken calls (the UI may send the IPC event     *)
(* while an earlier call is suspended on its fetch), after one             *)
(* authorization, with configuration changes.                              *)
(***************************************************************************)
RefreshNext ==
  \/ SetAnyConfig
  \/ ClearRemoteServerConfig
  \/ \E u \in ServerUrls : nonce = 0 /\ RequestAuthorization(1, u)
  \/ RequestAuthorizationDigest(1)
  \/ RequestAuthorizationOpened(1, TRUE)
  \/ HandleAuthCallback(1, "c1", authRequestState)
  \/ \E reply \in TokenReplies : ExchangeReply(1, reply)
  \/ \E i \in Slots : RefreshAccessToken(i)
  \/ \E i \in Slots, reply \in TokenReplies : RefreshReply(i, reply)

RefreshSpec == Init /\ [][RefreshNext]_vars

\* every request to the token endpoint is answered or fails in the end
RefreshLiveSpec ==
  /\ RefreshSpec
  /\ \A i \in Slots : WF_vars(\E reply \in TokenReplies : RefreshReply(i, reply))

(***************************************************************************)
(* The sync session: the application's start, the UI's start and stop      *)
(* calls, configuration changes, one authorization, and requests of the    *)
(* app's page, which reach both the interceptor and the registered hook.   *)
(* No refresh runs, so the handler never waits for one.                    *)
(***************************************************************************)
SyncNext ==
  \/ Bootstrap
  \/ AfterAppReady
  \/ StartRemoteSync
  \/ StopRemoteSync
  \/ \E req \in Requests : OnBeforeRequest(req)
  \/ SetAnyConfig
  \/ nonce = 0 /\ RequestAuthorization(1, "https://a")
  \/ RequestAuthorizationDigest(1)
  \/ RequestAuthorizationOpened(1, TRUE)
  \/ HandleAuthCallback(1, "c1", authRequestState)
  \/ \E reply \in TokenReplies : ExchangeReply(1, reply)
  \/ \E version \in HandlerVersions, req \in Requests :
       HandleRequest(1, version, req)
  \/ \E status \in ForwardReplies : ForwardReply(1, status)

SyncSpec == Init /\ [][SyncNext]_vars

(***************************************************************************)
(* The credential store read on its own: tokens saved by one               *)
(* authorization, cleared by the UI, and read while the platform's key     *)
(* store comes and goes.                                                   *)
(***************************************************************************)
TokenNext ==
  \/ GetAccessToken
  \/ GetRefreshToken
  \/ \E avail \in BOOLEAN : EncryptionAvailability(avail)
  \/ ClearRemoteServerConfig
  \/ \E u \in ServerUrls : nonce = 0 /\ RequestAuthorization(1, u)
  \/ RequestAuthorizationDigest(1)
  \/ RequestAuthorizationOpened(1, TRUE)
  \/ HandleAuthCallback(1, "c1", authRequestState)
  \/ \E reply \in TokenReplies : ExchangeReply(1, reply)

TokenSpec == Init /\ [][TokenNext]_vars

(***************************************************************************)
(* URLs delivered to the app: authorizations requested by the UI, and the  *)
(* operating system delivering any URL at any time, the same callback URL  *)
(* more than once and while an earlier delivery waits for the token        *)
(* endpoint.                                                               *)
(***************************************************************************)
CallbackNext ==
  \/ \E u \in ServerUrls : RequestAuthorization(1, u)
  \/ RequestAuthorizationDigest(1)
  \/ RequestAuthorizationOpened(1, TRUE)
  \/ \E i \in Slots, url \in OpenedUrls : HandleUrlOpen(i, url)
  \/ \E i \in Slots, reply \in TokenReplies : ExchangeReply(i, reply)

CallbackSpec == Init /\ [][CallbackNext]_vars

(***************************************************************************)
(* Two servers, each issuing its own tokens: authorizations against        *)
(* either, refreshes, disconnects and intercepted requests, without        *)
(* direct configuration writes by the UI.  No request finds the token      *)
(* absent while the configuration is active and a refresh is running, so   *)
(* the handler's wait before its first forward does not occur.             *)
(***************************************************************************)
\* the origin whose token endpoint issues the token value t
Issuer(t) == IF t \in {"AT1", "RT1"} THEN "https://a" ELSE "https://b"

\* the replies the token endpoint of serverUrl can give: failures, or a body
\* with tokens of its own
RepliesOf(serverUrl) ==
  {reply \in TokenReplies :
     /\ reply.access_token # NoField =>
          Issuer(reply.access_token) = Origin(serverUrl)
     /\ reply.refresh_token # NoField =>
          Issuer(reply.refresh_token) = Origin(serverUrl)}

BindingNext ==
  \/ ClearRemoteServerConfig
  \/ \E u \in ServerUrls : RequestAuthorization(1, u)
  \/ RequestAuthorizationDigest(1)
  \/ RequestAuthorizationOpened(1, TRUE)
  \/ HandleAuthCallback(1, "c1", authRequestState)
  \/ \E reply \in RepliesOf(cb[1].serverUrl) : ExchangeReply(1, reply)
  \/ RefreshAccessToken(1)
  \/ \E reply \in RepliesOf(rf[1].serverUrl) : RefreshReply(1, reply)
  \/ Bootstrap
  \/ \E version \in HandlerVersions :
       HandleRequest(1, version, [path |-> <<"trpc", "lambda", "q">>,
                                  search |-> "", method |-> "GET", body |-> ""])
  \/ \E status \in ForwardReplies : ForwardReply(1, status)
  \/ RetryWaited(1)
  \/ \E status \in ForwardReplies : RetryReply(1, status)

BindingSpec == Init /\ [][BindingNext]_vars

(***************************************************************************)
(* The interceptor's header hook: requests of the session to any origin,   *)
(* with configuration changes, one authorization, disconnects and the      *)
(* platform's key store coming and going.                                  *)
(***************************************************************************)
HeadersNext ==
  \/ Bootstrap
  \/ \E origin \in Destinations, headers \in HeadersIn :
       OnBeforeSendHeaders(origin, headers)
  \/ SetAnyConfig
  \/ ClearRemoteServerConfig
  \/ \E avail \in BOOLEAN : EncryptionAvailability(avail)
  \/ \E u \in ServerUrls : nonce = 0 /\ RequestAuthorization(1, u)
  \/ RequestAuthorizationDigest(1)
  \/ RequestAuthorizationOpened(1, TRUE)
  \/ HandleAuthCallback(1, "c1", authRequestState)
  \/ \E reply \in TokenReplies : ExchangeReply(1, reply)

HeadersSpec == Init /\ [][HeadersNext]_vars

(***************************************************************************)
(* Properties                                                              *)
(***************************************************************************)
Proxied(req) == \E prefix \in trpcProxyPath : PathStartsWith(req, prefix)

\* this step is the arrival of a request at the handler, in slot i if it
\* suspends: the handler either suspends in a free slot or returns at once
Arrived(i) ==
  \/ rq[i].pc = "idle" /\ rq'[i].pc # "idle"
  \/ rq' = rq /\ ret'.op = "handler"

\* C1: a handleAuthCallback call whose `state` parameter is not the pending
\* state fails with 'Invalid state parameter' and sends no token-exchange
\* request, whatever the code parameter, the config and the tokens are.
C1_InvalidStateRejected ==
  /\ \A i \in Slots : cb[i].pc = "exchange" => cb[i].stateMatched
  /\ (ret.op = "handleAuthCallback" /\ ~ret.stateMatched) =>
       /\ ~ret.success
       /\ ret.error = "Invalid state parameter"
       /\ ret.tokenRequests = 0

C1_Witness ==
  /\ ret.op = "handleAuthCallback"
  /\ ~ret.stateMatched
  /\ ret.error = "Invalid state parameter"
  /\ nonce > 0
  /\ getRemoteServerConfig(store).isRemoteServerActive

\* C2: a request whose forward is answered 401 is forwarded at most once
\* more, after a refreshTokenIfNeeded call: no request is forwarded more than
\* twice, and a 401 answer to the retry is the response the handler returns.
C2_AtMostOneRetry ==
  /\ \A i \in Slots :
       /\ Len(rq[i].sent) <= 2
       /\ rq[i].refreshCalls <= 2
       /\ rq[i].pc = "fetch2" => (Len(rq[i].sent) = 2 /\ rq[i].refreshCalls >= 1)
  /\ ret.op = "handler" =>
       /\ Len(ret.sent) <= 2
       /\ ret.refreshCalls <= 2
       /\ (Len(ret.sent) = 2 /\ ret.status = 401) => ret.outcome = "response"

C2_Witness ==
  /\ ret.op = "handler"
  /\ Len(ret.sent) = 2
  /\ ret.status = 401
  /\ ret.outcome = "response"

\* C3: when a refreshAccessToken call fails (not active, no refresh token,
\* network error, non-2xx answer, malformed body), then as it returns the
\* config is inactive, both tokens are absent, the serverUrl is the one that
\* was stored just before, and it broadcast authorizationRequired once.
RefreshFailed(r) ==
  /\ r.op = "refreshAccessToken"
  /\ ~r.success
  /\ r.error # "Token refresh already in progress"

C3_RefreshFailureDeactivates ==
  [][RefreshFailed(ret') =>
       /\ ~getRemoteServerConfig(store').isRemoteServerActive
       /\ getToken(encryptionAvailable', encryptedAccessToken') = Undefined
       /\ getToken(encryptionAvailable', encryptedRefreshToken') = Undefined
       /\ getRemoteServerConfig(store').remoteServerUrl
            = getRemoteServerConfig(store).remoteServerUrl
       /\ ret'.events = <<"authorizationRequired">>]_vars

C3_Witness ==
  /\ RefreshFailed(ret)
  /\ ret.error = "fetch failed"
  /\ ret.tokenRequests = 1
  /\ getRemoteServerConfig(store).remoteServerUrl \in ServerUrls

\* C4: in every reachable state, an active config has a non-empty serverUrl
\* and an access token or a refresh token is stored.
C4_ActiveImpliesCredential ==
  getRemoteServerConfig(store).isRemoteServerActive =>
    /\ getRemoteServerConfig(store).remoteServerUrl # ""
    /\ getAccessToken # Undefined \/ getRefreshToken # Undefined

\* C5: when a callback with the pending state and a code is answered by the
\* token endpoint with both tokens, then on return the config is active with
\* the serverUrl given to requestAuthorization, the two tokens read back are
\* the ones answered, and authorizationSuccessful was broadcast once.
C5_ExchangeSuccess ==
  (ret.op = "handleAuthCallback" /\ ret.success) =>
    /\ getRemoteServerConfig(store) =
         [isRemoteServerActive |-> TRUE, remoteServerUrl |-> ret.requestedUrl]
    /\ getAccessToken = ret.access_token
    /\ getRefreshToken = ret.refresh_token
    /\ ret.events = <<"authorizationSuccessful">>

\* C6: a request to a proxied path that arrives while the config is active
\* with a non-empty serverUrl and an access token can be read is forwarded to
\* the server's origin with its path, query, method and body and the header
\* Authorization: Bearer <that token>.
C6_ActiveRequestForwarded ==
  [][\A i \in Slots :
       LET arrived == Arrived(i)
           proxied == IF rq'[i].pc # "idle" THEN Proxied(rq'[i].req)
                      ELSE ret'.proxied
           config  == getRemoteServerConfig(store)
       IN (/\ arrived
           /\ proxied
           /\ config.isRemoteServerActive
           /\ config.remoteServerUrl # ""
           /\ getAccessToken # Undefined)
          => /\ rq'[i].pc = "fetch1"
             /\ rq'[i].sent = <<Forwarded(rq'[i].req, config.remoteServerUrl,
                                          getAccessToken)>>]_vars

\* C7: a request whose path starts with none of the proxied prefixes is
\* returned as not handled at once: it is never left waiting on a timer or
\* forwarded, whatever the config and the tokens are.
C7_UnproxiedNotHandled ==
  /\ \A i \in Slots : rq[i].pc # "idle" => Proxied(rq[i].req)
  /\ (ret.op = "handler" /\ ~ret.proxied) =>
       /\ ret.outcome = "null"
       /\ ret.sent = <<>>

\* C8: a request that arrives while the config is inactive or has no
\* serverUrl is returned as not handled, with no forward and no refresh call
\* and with the config, the tokens and the refresh flag left as they were.
C8_InactiveNotHandled ==
  [][/\ \A i \in Slots : rq'[i].pc # "idle" => ~rq'[i].inactive
     /\ (ret'.op = "handler" /\ ret'.inactiveAtArrival) =>
          /\ ret'.outcome = "null"
          /\ ret'.sent = <<>>
          /\ ret'.refreshCalls = 0
          /\ UNCHANGED <<store, encryptedAccessToken, encryptedRefreshToken,
                         isRefreshing>>]_vars

C8_Witness ==
  /\ ret.op = "handler"
  /\ ret.inactiveAtArrival
  /\ ret.proxied
  /\ ret.outcome = "null"
  /\ getRemoteServerConfig(store).remoteServerUrl # ""

\* C9: whatever throws while a request is handled, the first forward and the
\* retry included, the handler's outcome is not handled; it never ends with
\* an error passed on to its caller.
C9_ExceptionsAbsorbed ==
  ret.op = "handler" =>
    /\ ret.outcome # "rejected"
    /\ ret.status = 0 => ret.outcome = "null"

\* C10 as stated: refreshAccessToken called while no refresh token is stored
\* fails with 'No refresh token available', called while the config is
\* inactive or without URL it fails with 'Remote server not active', and in
\* both cases no request is sent to the token endpoint.
C10_AsStated ==
  /\ \A i \in Slots :
       rf[i].pc = "fetch" => (~rf[i].notActive /\ ~rf[i].noRefreshToken)
  /\ ret.op = "refreshAccessToken" =>
       /\ ret.noRefreshToken =>
            (ret.error = "No refresh token available" /\ ret.tokenRequests = 0)
       /\ ret.notActive =>
            (ret.error = "Remote server not active" /\ ret.tokenRequests = 0)

\* C10: refreshAccessToken called while a refresh is marked in progress fails
\* with 'Token refresh already in progress'; otherwise, called while the
\* config is inactive or without URL it fails with 'Remote server not
\* active'; otherwise, called while no refresh token is stored it fails with
\* 'No refresh token available'.  In all three cases no request is sent to
\* the token endpoint.
C10_RefreshPreconditions ==
  /\ \A i \in Slots :
       rf[i].pc = "fetch" => (~rf[i].notActive /\ ~rf[i].noRefreshToken)
  /\ ret.op = "refreshAccessToken" =>
       /\ ret.wasRefreshing =>
            (ret.error = "Token refresh already in progress"
             /\ ret.tokenRequests = 0)
       /\ (~ret.wasRefreshing /\ ret.notActive) =>
            (ret.error = "Remote server not active" /\ ret.tokenRequests = 0)
       /\ (~ret.wasRefreshing /\ ~ret.notActive /\ ret.noRefreshToken) =>
            (ret.error = "No refresh token available" /\ ret.tokenRequests = 0)

C10_Witness ==
  /\ ret.op = "refreshAccessToken"
  /\ ~ret.wasRefreshing
  /\ ~ret.notActive
  /\ ret.noRefreshToken
  /\ ret.error = "No refresh token available"

\* C11 as stated: once requestAuthorization(u) has been called the persisted
\* config is {active: false, serverUrl: u}, and this is the config when the
\* call returns, with success or with failure.
C11_AsStated ==
  ret.op = "requestAuthorization" =>
    getRemoteServerConfig(store) = requestAuthorizationConfig(ret.serverUrl)

\* C11: the first thing a requestAuthorization(u) call does, before it draws
\* the pending secrets and before the browser is opened, is to persist
\* {active: false, serverUrl: u}; the rest of the call, up to its return with
\* success or failure, writes nothing to the config, so the config on return
\* is that one unless another operation wrote it while the call was suspended.
C11_PersistedFirst ==
  [][/\ \A i \in Slots :
          (ra[i].pc = "idle" /\ ra'[i].pc # "idle") =>
            /\ getRemoteServerConfig(store')
                 = [isRemoteServerActive |-> FALSE,
                    remoteServerUrl |-> ra'[i].serverUrl]
            /\ ra'[i].pc = "digest"
            /\ UNCHANGED <<authRequestState, codeVerifier>>
     /\ ret'.op = "requestAuthorization" => store' = store]_vars

C11_Witness ==
  /\ ret.op = "requestAuthorization"
  /\ ret.success
  /\ ret.serverUrl = "https://b/base"
  /\ getRemoteServerConfig(store)
       = [isRemoteServerActive |-> FALSE, remoteServerUrl |-> "https://b/base"]

\* C12: a handleAuthCallback call whose `state` parameter equals the pending
\* state and which carries no code fails with 'No authorization code
\* received', sends no token-exchange request and broadcasts
\* authorizationFailed.
C12_MissingCodeRejected ==
  /\ \A i \in Slots : cb[i].pc = "exchange" => cb[i].code # ""
  /\ (ret.op = "handleAuthCallback" /\ ret.stateMatched /\ ret.code = "") =>
       /\ ~ret.success
       /\ ret.error = "No authorization code received"
       /\ ret.tokenRequests = 0
       /\ ret.events = <<"authorizationFailed">>

C12_Witness ==
  /\ ret.op = "handleAuthCallback"
  /\ ret.stateMatched
  /\ ret.code = ""
  /\ ret.error = "No authorization code received"
  /\ nonce > 0

\* C13: from any state, when clearRemoteServerConfig returns, getAccessToken
\* and getRefreshToken both return absent and getRemoteServerConfig returns
\* {active: false, serverUrl: ""}.
C13_ClearLeavesNothing ==
  ret.op = "clearRemoteServerConfig" =>
    /\ getAccessToken = Undefined
    /\ getRefreshToken = Undefined
    /\ getRemoteServerConfig(store)
         = [isRemoteServerActive |-> FALSE, remoteServerUrl |-> ""]

C13_Witness ==
  /\ ret.op = "clearRemoteServerConfig"
  /\ ret.hadUrl
  /\ ret.hadTokens
  /\ getAccessToken = Undefined

\* C14: round trip.  When a call has saved the non-empty tokens a and r with
\* saveTokens (the code exchange and the refresh are its two callers),
\* getAccessToken and getRefreshToken return a and r unchanged, with the
\* encryption available and with it unavailable; a later save overwrites the
\* pair, so the reads return the tokens of the last save.
C14_TokenRoundTrip ==
  (ret.op \in {"handleAuthCallback", "refreshAccessToken"} /\ ret.success) =>
    /\ ret.access_token \in AccessTokens
    /\ ret.refresh_token \in RefreshTokens
    /\ getAccessToken = ret.access_token
    /\ getRefreshToken = ret.refresh_token

\* a second save (by a refresh, which needs the pair of an earlier save)
\* with other tokens than the first, read back through the decryption
C14_Witness ==
  /\ ret.op = "refreshAccessToken"
  /\ ret.success
  /\ encryptionAvailable
  /\ ret.oldRefreshToken = "RT1"
  /\ ret.access_token = "AT2"
  /\ ret.refresh_token = "RT2"
  /\ encryptedAccessToken = EncryptString("AT2")
  /\ getAccessToken = "AT2"
  /\ getRefreshToken = "RT2"

\* C15: whenever a handleAuthCallback call returns, on every exit path
\* (success, state mismatch, missing code, failed exchange, exception), the
\* pending code verifier and the pending state are both cleared.
C15_PendingClearedOnExit ==
  ret.op = "handleAuthCallback" =>
    /\ authRequestState = NullSecret
    /\ codeVerifier = NullSecret

\* a callback rejected for its state, after two authorization requests
C15_Witness ==
  /\ ret.op = "handleAuthCallback"
  /\ ~ret.stateMatched
  /\ nonce = MaxAuthRequests
  /\ authRequestState = NullSecret
  /\ codeVerifier = NullSecret

C18_FlagEventuallyCleared ==
  /\ isRefreshing ~> ~isRefreshing
  /\ []((\A i \in Slots : rf[i].pc = "idle") => ~isRefreshing)

\* a call that set the flag and sent its request has returned
C18_Witness ==
  /\ ret.op = "refreshAccessToken"
  /\ ret.tokenRequests = 1
  /\ ~ret.wasRefreshing
  /\ \A i \in Slots : rf[i].pc = "idle"
  /\ ~isRefreshing

\* C19: when the token endpoint answers a refresh request 2xx with an
\* access_token, then as refreshAccessToken returns {success: true} the
\* access token read back is that one, the refresh token read back is the
\* newly issued one if the answer holds one and otherwise the refresh token
\* the call read from the store before it sent the request, tokenRefreshed
\* was broadcast once, and the config is the one of the state before.
C19_RefreshSuccess ==
  [][\A i \in Slots, reply \in TokenReplies :
       (/\ rf[i].pc = "fetch"
        /\ reply.kind = "ok"
        /\ reply.access_token # NoField
        /\ ret'.op = "refreshAccessToken"
        /\ ret'.reply = reply)
       => /\ ret'.success
          /\ getToken(encryptionAvailable', encryptedAccessToken')
               = reply.access_token
          /\ getToken(encryptionAvailable', encryptedRefreshToken')
               = (IF reply.refresh_token # NoField THEN reply.refresh_token
                  ELSE ret'.oldRefreshToken)
          /\ ret'.oldRefreshToken \in RefreshTokens
          /\ ret'.events = <<"tokenRefreshed">>
          /\ getRemoteServerConfig(store') = getRemoteServerConfig(store)]_vars

\* a refresh answered without a new refresh token: the old one is kept
C19_Witness ==
  /\ ret.op = "refreshAccessToken"
  /\ ret.success
  /\ ret.reply.access_token = "AT2"
  /\ ret.reply.refresh_token = NoField
  /\ ret.oldRefreshToken = "RT1"
  /\ getAccessToken = "AT2"
  /\ getRefreshToken = "RT1"

\* C20: when the token endpoint answers the code exchange with a non-2xx
\* status or with a body that lacks access_token or refresh_token, then
\* handleAuthCallback fails, the stored tokens and the config are the ones
\* of the state before (no token saved, active not set), and
\* authorizationFailed is broadcast once with the error message returned.
C20_ExchangeFailure ==
  [][\A i \in Slots, reply \in TokenReplies :
       (/\ cb[i].pc = "exchange"
        /\ \/ reply.kind = "http"
           \/ reply.kind = "ok" /\ (reply.access_token = NoField
                                     \/ reply.refresh_token = NoField)
        /\ ret'.op = "handleAuthCallback"
        /\ ret'.reply = reply)
       => /\ ~ret'.success
          /\ ret'.error # ""
          /\ ret'.events = <<"authorizationFailed">>
          /\ ret'.failedWith = ret'.error
          /\ UNCHANGED <<encryptedAccessToken, encryptedRefreshToken, store>>]_vars

\* an answer with an access token but no refresh token
C20_Witness ==
  /\ ret.op = "handleAuthCallback"
  /\ ~ret.success
  /\ ret.reply.kind = "ok"
  /\ ret.reply.access_token = "AT1"
  /\ ret.reply.refresh_token = NoField
  /\ ret.error = "Invalid token response: missing required fields"
  /\ getAccessToken = Undefined

\* C21: requestAuthorization, handleAuthCallback and refreshAccessToken
\* return {success: true} or {success: false, error} with an error message,
\* never anything else; a handleAuthCallback call broadcasts exactly one
\* event, authorizationSuccessful if it succeeded and authorizationFailed if
\* not; requestAuthorization returns {success: false, error} when the
\* browser could not be opened.
C21_FailuresReturned ==
  /\ ret.op \in {"requestAuthorization", "handleAuthCallback",
                  "refreshAccessToken"} =>
       /\ ret.success \in BOOLEAN
       /\ ret.success <=> ret.error = ""
  /\ ret.op = "handleAuthCallback" =>
       ret.events = IF ret.success THEN <<"authorizationSuccessful">>
                    ELSE <<"authorizationFailed">>
  /\ (ret.op = "requestAuthorization" /\ ret.browser = "failed") =>
       (~ret.success /\ ret.error # "")

C21_Witness ==
  /\ ret.op = "requestAuthorization"
  /\ ret.browser = "failed"
  /\ ~ret.success
  /\ ret.error = "Failed to open URL"

\* C22: a proxied request the handler takes up while the config is active,
\* and for which it reads no access token, makes
\* one refreshTokenIfNeeded call before anything is forwarded; when that
\* call fails, or when no token can be read after it, the handler returns
\* not handled without a forward call; and every forward call carries a
\* token.
C22_NoForwardWithoutToken ==
  [][\A i \in Slots :
       LET arrived == Arrived(i)
           version == IF rq'[i].pc # "idle" THEN rq'[i].version ELSE ret'.version
           proxied == IF rq'[i].pc # "idle" THEN Proxied(rq'[i].req)
                      ELSE ret'.proxied /\ ret'.matched
           refused == /\ rq'[i].pc = "idle"
                      /\ ret'.op = "handler"
                      /\ ret'.outcome = "null"
                      /\ ret'.sent = <<>>
                      /\ ret'.refreshCalls = 1
       IN /\ (/\ arrived
               /\ proxied
               /\ ~notActive(version, getRemoteServerConfig(store))
               /\ getAccessToken = Undefined)
              => \/ refused
                 \/ /\ rq'[i].pc = "wait1"
                    /\ rq'[i].sent = <<>>
                    /\ rq'[i].refreshCalls = 1
          /\ (rq[i].pc = "wait1" /\ rq'[i].pc # "wait1"
               /\ getAccessToken = Undefined) => refused
          /\ \A k \in 1..Len(rq'[i].sent) :
               rq'[i].sent[k].authorization \in AccessTokens]_vars

\* a request that found no token and no refresh in progress was refused
C22_Witness ==
  /\ ret.op = "handler"
  /\ ret.version = "trpc"
  /\ ret.proxied
  /\ ~ret.inactiveAtArrival
  /\ ret.refreshCalls = 1
  /\ ret.sent = <<>>
  /\ ret.outcome = "null"
  /\ getAccessToken = Undefined

\* C23: there is one pending verifier/state pair at most, and once a second
\* requestAuthorization has been issued, a callback that carries the state
\* of the first flow does not reach the token exchange: a callback goes on
\* to the exchange only with the state of the latest request issued.
C23_SupersededFlowRejected ==
  [][/\ codeVerifier' = authRequestState'
     /\ \A i \in Slots :
          (cb[i].pc = "idle" /\ cb'[i].pc = "exchange") =>
            (cb'[i].stateMatched /\ cb'[i].pending.n = nonce)]_vars

\* the calls that start the proxy
StartOps == {"bootstrap", "afterAppReady", "startRemoteSync"}

\* C24: whatever afterAppReady, startRemoteSync and stopRemoteSync calls have
\* been made, the host has at most one request-handler hook registered, the
\* one the controller holds the unregister function of; and when a start
\* call returns the host has exactly one.
C24_AtMostOneHook ==
  [][/\ Cardinality(requestHandlers') <= 1
     /\ unregisterRequestHandler' # NoHook =>
          requestHandlers' = {unregisterRequestHandler'}
     /\ ret'.op \in StartOps => Cardinality(requestHandlers') = 1]_vars

\* C24 witness: a start call made while a hook was registered has returned,
\* and the host has one hook
C24_Witness ==
  /\ ret.op = "startRemoteSync"
  /\ ret.replaced
  /\ Cardinality(requestHandlers) = 1

\* C25: once the application is up and stopRemoteSync has returned, and until
\* the next start, a request that arrives is not passed to the handler, and
\* a request to a proxied path is not redirected by the interceptor either,
\* whatever the stored configuration is.
C25_StoppedNoRewrite ==
  [][(initialized /\ unregisterRequestHandler = NoHook) =>
       /\ \A i \in Slots : ~Arrived(i)
       /\ (ret'.op = "onBeforeRequest" /\ ret'.proxied) =>
            ret'.redirectURL = NoRedirect]_vars

\* C26: a getAccessToken or getRefreshToken call raises nothing to its
\* caller; when no value is stored for the token, or the stored value cannot
\* be decrypted, it returns null; and the call leaves the stored values and
\* the configuration as they were.
C26_GetTokenNeverRaises ==
  [][ret'.op \in {"getAccessToken", "getRefreshToken"} =>
       /\ ~ret'.raised
       /\ (ret'.absent \/ ret'.decryptFailed) => ret'.value = Undefined
       /\ UNCHANGED <<store, encryptedAccessToken, encryptedRefreshToken>>]_vars

\* C26 witness: a getAccessToken call found a stored value it could not
\* decrypt and returned null
C26_Witness ==
  /\ ret.op = "getAccessToken"
  /\ ret.decryptFailed
  /\ ~ret.raised
  /\ ret.value = Undefined
  /\ encryptedAccessToken \in AccessTokens

\* the configurations a setRemoteServerConfig call can carry
Configs == [isRemoteServerActive : BOOLEAN, remoteServerUrl : UrlInputs]

\* C27: a step that changes the stored configuration is one whole write, of
\* both keys by one setRemoteServerConfig call or of one clear; and when a
\* setRemoteServerConfig call has returned, what getRemoteServerConfig reads
\* is that call's serverUrl with that call's active flag.  No state between
\* the two key writes exists for a reader to see.
C27_SetConfigAtomic ==
  [][/\ store' # store =>
          \/ \E c \in Configs : store' = setRemoteServerConfig(store, c)
          \/ store' = clearRemoteServerConfigStore(store)
     /\ ret'.op = "setRemoteServerConfig" =>
          getRemoteServerConfig(store') = ret'.config]_vars

\* C27 witness: a setRemoteServerConfig call changed both the URL and the
\* flag while an authorization was in progress, and the stored pair is the
\* call's
C27_Witness ==
  /\ ret.op = "setRemoteServerConfig"
  /\ ret.config = [isRemoteServerActive |-> TRUE,
                   remoteServerUrl |-> "https://b/base"]
  /\ getRemoteServerConfig(store) = ret.config
  /\ ra[1].pc = "openExternal"
  /\ ra[1].serverUrl = "https://a"

\* C28: a delivered URL that is not the auth callback, or whose state
\* parameter is not the pending state, or that carries no code, starts no
\* token exchange and leaves the configuration and both stored tokens as
\* they were.
C28_InvalidCallbackDiscarded ==
  [][\A i \in Slots, url \in OpenedUrls :
       (/\ HandleUrlOpen(i, url)
        /\ \/ ~url.callback
           \/ url.state # authRequestState
           \/ url.code = "") =>
         /\ cb' = cb
         /\ UNCHANGED <<store, encryptedAccessToken, encryptedRefreshToken>>]_vars

\* C28 witness: with tokens stored and the configuration active, a callback
\* whose state is not the pending one was handled and rejected
C28_Witness ==
  /\ ret.op = "handleAuthCallback"
  /\ ~ret.stateMatched
  /\ ret.code = "c1"
  /\ ret.error = "Invalid state parameter"
  /\ ret.tokenRequests = 0
  /\ encryptedAccessToken # Undefined
  /\ encryptedRefreshToken # Undefined
  /\ getRemoteServerConfig(store).isRemoteServerActive

\* C29: no token-exchange request is sent for a pending authorization for
\* which an exchange is already waiting for the token endpoint: a handled
\* callback starts an exchange only when no other call is in its exchange
\* with the same pending state.
C29_OneExchangePerPending ==
  [][\A i \in Slots :
       (cb[i].pc = "idle" /\ cb'[i].pc = "exchange") =>
         \A j \in Slots \ {i} :
           ~(cb[j].pc = "exchange" /\ cb[j].pending = cb'[i].pending)]_vars

\* C30: when the handler retries a request after a 401, the retry carries a
\* token other than the one the 401 answered, and it is sent when no refresh
\* is in flight any more.
C30_RetryCarriesNewToken ==
  [][\A i \in Slots :
       (rq[i].pc = "wait2" /\ rq'[i].pc = "fetch2") =>
         /\ rq'[i].sent[2].authorization # rq'[i].sent[1].authorization
         /\ ~isRefreshing]_vars

\* C31: when a handleAuthCallback call completes its token exchange and the
\* pending authorization is by then a newer one than the one its callback
\* matched, the completion leaves the newer state and verifier in place.
C31_NewerPendingSurvives ==
  [][\A i \in Slots :
       (/\ cb[i].pc = "exchange" /\ cb'[i].pc = "idle"
        /\ authRequestState # NullSecret
        /\ authRequestState # cb[i].pending) =>
         /\ authRequestState' = authRequestState
         /\ codeVerifier' = codeVerifier]_vars

\* C32: a refreshAccessToken call that completes when no token is stored
\* (they were cleared while it waited for the token endpoint) stores none:
\* both tokens stay absent.
C32_ClearIsDurable ==
  [][\A i \in Slots :
       (/\ rf[i].pc = "fetch" /\ rf'[i].pc = "idle"
        /\ getAccessToken = Undefined /\ getRefreshToken = Undefined) =>
         /\ encryptedAccessToken' = Undefined
         /\ encryptedRefreshToken' = Undefined]_vars

\* C33: every forward call the handler has issued for a request in progress,
\* first attempt or retry, carries a token issued by the origin the call is
\* sent to.
C33_TokenBoundToOrigin ==
  \A i \in Slots : \A k \in 1..Len(rq[i].sent) :
    Issuer(rq[i].sent[k].authorization) = rq[i].sent[k].origin

\* C34: the handler issues a forward call, first attempt or retry, only at a
\* moment when the stored configuration is active.
C34_ForwardOnlyWhileActive ==
  [][\A i \in Slots :
       Len(rq'[i].sent) > Len(rq[i].sent) =>
         getRemoteServerConfig(store).isRemoteServerActive]_vars

\* C35: a refreshAccessToken call sends its request to the token endpoint
\* only when no other refresh request presenting the same refresh token is
\* waiting for its answer.
C35_RefreshTokenPresentedOnce ==
  [][\A i \in Slots :
       (rf[i].pc = "idle" /\ rf'[i].pc = "fetch") =>
         \A j \in Slots \ {i} :
           ~(rf[j].pc = "fetch"
             /\ rf[j].refreshToken = rf'[i].refreshToken)]_vars

\* C36: a step that turns the stored active flag from false to true is
\* either a setRemoteServerConfig call of the UI or the completion of a
\* handleAuthCallback call whose state parameter matched the pending state
\* and whose token exchange succeeded.
C36_ActivatedOnlyByExchange ==
  [][(/\ ~getRemoteServerConfig(store).isRemoteServerActive
      /\ getRemoteServerConfig(store').isRemoteServerActive) =>
       \/ ret'.op = "setRemoteServerConfig"
       \/ /\ ret'.op = "handleAuthCallback"
          /\ ret'.success
          /\ ret'.stateMatched
          /\ ret'.tokenRequests = 1
          /\ \E i \in Slots : cb[i].pc = "exchange" /\ cb'[i].pc = "idle"]_vars

\* C36 witness: a handleAuthCallback call with the pending state has
\* completed a successful exchange and the configuration is active for the
\* server the authorization was requested for
C36_Witness ==
  /\ ret.op = "handleAuthCallback"
  /\ ret.success
  /\ ret.stateMatched
  /\ getRemoteServerConfig(store) =
       [isRemoteServerActive |-> TRUE, remoteServerUrl |-> ret.requestedUrl]

\* the stored forms saveTokens gives the token t
SavedForms(t) == {t, EncryptString(t)}

\* C37: what getAccessToken (getRefreshToken) returns is null or the token
\* that saveTokens was last given, of which the stored value is the raw or
\* the encrypted form; it is never another string, whatever the availability
\* of encryption was at the save and is at the read.
C37_ReadsWhatWasSaved ==
  [][/\ ret'.op = "getAccessToken" =>
          \/ ret'.value = Undefined
          \/ /\ ret'.value \in AccessTokens
             /\ encryptedAccessToken \in SavedForms(ret'.value)
     /\ ret'.op = "getRefreshToken" =>
          \/ ret'.value = Undefined
          \/ /\ ret'.value \in RefreshTokens
             /\ encryptedRefreshToken \in SavedForms(ret'.value)]_vars

\* C38: while no authorization is pending, a delivered URL, whatever state
\* and code parameters it carries or lacks, starts no token exchange, is
\* not answered with success, and leaves the configuration and both stored
\* tokens as they were.
C38_NoPendingNoExchange ==
  [][\A i \in Slots, url \in OpenedUrls :
       (authRequestState = NullSecret /\ HandleUrlOpen(i, url)) =>
         /\ cb' = cb
         /\ ret'.op = "handleAuthCallback" => ~ret'.success
         /\ UNCHANGED <<store, encryptedAccessToken, encryptedRefreshToken>>]_vars

\* C38 witness: with no authorization pending and a server configured, a
\* callback without state parameter and with a code was handled: it passed
\* the state comparison and was stopped for want of a code verifier
C38_Witness ==
  /\ ret.op = "handleAuthCallback"
  /\ ret.stateMatched
  /\ ret.code = "c1"
  /\ ret.error = "No code verifier found"
  /\ ret.tokenRequests = 0
  /\ authRequestState = NullSecret
  /\ \A i \in Slots : cb[i].pc = "idle"

\* the interceptor may attach the bearer token to a request to `origin`: the
\* configuration is active, the origin is that of the configured server, and
\* getAccessToken returns a token
MayAttach(origin) ==
  /\ getRemoteServerConfig(store).isRemoteServerActive
  /\ IsValidUrl(getRemoteServerConfig(store).remoteServerUrl)
  /\ origin = Origin(getRemoteServerConfig(store).remoteServerUrl)
  /\ getAccessToken # Undefined

\* C39: onBeforeSendHeaders changes the Authorization header of a request
\* only if the request goes to the origin of the configured server while the
\* configuration is active and an access token can be read, and then it
\* sets it to `Bearer <token>`; every other request keeps its headers.
C39_BearerOnlyToServer ==
  [][ret'.op = "onBeforeSendHeaders" =>
       IF MayAttach(ret'.origin)
       THEN ret'.requestHeaders.Authorization = "Bearer " \o getAccessToken
       ELSE ret'.requestHeaders = ret'.headers]_vars

\* C39 witness: with the configuration active for https://b/base and a
\* token stored, a request to another server went through with its headers
\* unchanged
C39_Witness ==
  /\ ret.op = "onBeforeSendHeaders"
  /\ ret.origin = "https://a"
  /\ ret.requestHeaders = ret.headers
  /\ getRemoteServerConfig(store) =
       [isRemoteServerActive |-> TRUE, remoteServerUrl |-> "https://b/base"]
  /\ getAccessToken # Undefined

\* a request in progress in slot i is resolved in the end
C40_Terminates == \A i \in Slots : (rq[i].pc # "idle") ~> (rq[i].pc = "idle")

\* C40: if every forward call is answered or fails in the end, every
\* intercepted request is resolved in the end, with a response or as not
\* handled, after at most two forward calls and two refreshTokenIfNeeded
\* calls.
C40_RequestResolves ==
  /\ C40_Terminates
  /\ [](ret.op = "handler" =>
          /\ ret.outcome \in {"response", "null"}
          /\ Len(ret.sent) <= 2
          /\ ret.refreshCalls <= 2)
====
